---- MODULE Spec2Model ----
(***************************************************************************)
(* IGMP membership tracking and report scheduling of FreeRTOS+TCP          *)
(* (FreeRTOS_IGMP.c).  The IP task runs the handlers one at a time, so     *)
(* every handler is one atomic action.                                     *)
(*                                                                         *)
(* An IPv4 address is the tuple of its four octets, a uint32_t random      *)
(* value the pair <<high half, low half>> of its 16-bit halves.  A report  *)
(* descriptor is identified by the heap address pvPortMalloc returned for  *)
(* it; NULL is 0.                                                          *)
(***************************************************************************)
EXTENDS Integers, Sequences, FiniteSets, TLC

(***************************************************************************)
(* Bounds of the model.                                                    *)
(***************************************************************************)
NumSockets == 2          \* sockets that issue membership requests
MaxQueries == 1          \* cap of uiNumIGMP_Queries
MaxReports == 1          \* cap of uiNumIGMP_Reports

Sockets == 1 .. NumSockets

(***************************************************************************)
(* Program constants.                                                      *)
(***************************************************************************)
ipIGMP_MEMBERSHIP_QUERY     == 17    \* 0x11
ipIGMP_MEMBERSHIP_REPORT_V1 == 18    \* 0x12
ipIGMP_MEMBERSHIP_REPORT_V2 == 22    \* 0x16
ipIGMP_MEMBERSHIP_REPORT_V3 == 34    \* 0x22
ipIGMP_LEAVE_GROUP          == 23    \* 0x17, a type the switch does not name
ipIGMP_IP_ADDR              == <<224, 0, 0, 1>>
ipLLMNR_IP_ADDR             == <<224, 0, 0, 252>>
ipPROTOCOL_IGMP             == 2
sizeofIGMPPacket            == 42    \* 14 Ethernet + 20 IPv4 + 8 IGMP
eSocketOptAddMembership     == 1
eSocketOptDropMembership    == 2
eSocketOptOther             == 3     \* any bAction that is neither of the two
pdFALSE == 0
pdTRUE  == 1
NULL    == 0
FAIL    == <<-1, -1>>    \* xApplicationGetRandomNumber returned pdFALSE
UINT16  == 65536
UINT8   == 256
AnyAddr == <<0, 0, 0, 0>>    \* the group address field of a general query

(***************************************************************************)
(* Inputs.                                                                 *)
(***************************************************************************)
OtherGroup == <<239, 1, 2, 3>>
Groups == {ipLLMNR_IP_ADDR, OtherGroup}
\* a third group, joined only in the registries a query is applied to
ThirdGroup == <<239, 1, 2, 4>>

\* A scope names the inputs a specification draws from:
\*   socks      the sockets that issue membership requests
\*   cand       whether a join request carries a candidate report descriptor
\*   ptrs       the heap addresses pvPortMalloc may return for a descriptor
\*   randJoin   the outcomes of the random source during a join
\*   watch      whether the steps keep the tick counts of last.watch
\*   randQuery  the outcomes of the random source during a general query,
\*              for each length of the registry
\*   times      the max-response-time fields of inbound queries
\*   bufs       whether a network buffer is available for a report
\*   record     whether last keeps the inputs of the handler
\* The whole-system scope: every handler, one socket, rich timing inputs.
SysScope ==
    [socks |-> {1}, cand |-> {TRUE},
     ptrs |-> {536870928, 536870932, 536870937},
     randJoin |-> {FAIL, <<UINT16 - 1, UINT16 - 1>>, <<4660, 22136>>}
                  \cup {<<0, k>> : k \in 0 .. 7},
     randQuery |-> [n \in 0 .. 2 |-> {FAIL, <<0, 0>>, <<UINT16 - 1, UINT16 - 1>>}],
     times |-> {0, 3, 10},
     bufs |-> BOOLEAN, record |-> FALSE, watch |-> FALSE]
\* The query scope: one inbound frame with any max-response-time field; the
\* random source returns every low byte when one report is registered
QueryScope ==
    [socks |-> {1}, cand |-> {TRUE},
     ptrs |-> {536870928, 536870932, 536870937},
     randJoin |-> {FAIL},
     randQuery |-> [n \in 0 .. 3 |->
                      IF n = 3 THEN {FAIL}
                      ELSE IF n = 2
                      THEN {FAIL, <<0, 0>>, <<0, 255>>, <<4660, 22136>>}
                      ELSE {FAIL, <<UINT16 - 1, UINT16 - 1>>, <<4660, 22136>>}
                           \cup {<<0, k>> : k \in 0 .. 255}],
     times |-> 0 .. 255,
     bufs |-> BOOLEAN, record |-> TRUE, watch |-> FALSE]
\* the countdowns of the registries the query scope starts from
QueryCountDowns == {0, 1, 2, 9, 253}
\* The membership scope: every socket, every join carries a candidate.
MemberScope ==
    [socks |-> Sockets, cand |-> {TRUE},
     ptrs |-> {536870928, 536870936, 536870944},
     randJoin |-> {FAIL, <<0, 0>>},
     randQuery |-> [n \in 0 .. 2 |-> {FAIL}],
     times |-> {0},
     bufs |-> BOOLEAN, record |-> TRUE, watch |-> FALSE]

\* The optional scope: two sockets, a join carries a candidate or none.
OptionalScope ==
    [socks |-> {1, 2}, cand |-> BOOLEAN,
     ptrs |-> {536870928, 536870936, 536870944},
     randJoin |-> {FAIL},
     randQuery |-> [n \in 0 .. 2 |-> {FAIL}],
     times |-> {0},
     bufs |-> BOOLEAN, record |-> TRUE, watch |-> FALSE]

\* The watch scope: the whole system with one socket, observed tick by tick.
WatchScope ==
    [socks |-> {1}, cand |-> {TRUE},
     ptrs |-> {536870928, 536870937},
     randJoin |-> {FAIL, <<0, 7>>},
     randQuery |-> [n \in 0 .. 2 |-> {FAIL, <<0, 0>>, <<UINT16 - 1, UINT16 - 1>>}],
     times |-> {0, 3, 10},
     bufs |-> BOOLEAN, record |-> FALSE, watch |-> TRUE]

VARIABLES
    xIGMP_ScheduleList,     \* registry: sequence of report descriptors
    xMulticastGroupsList,   \* per socket: sequence of group descriptors
    xHeap,                  \* report descriptors allocated and not freed
    bHeapFault,             \* vPortFree was called on a block not allocated
    uiNumIGMP_Queries,
    uiNumIGMP_Reports,
    bLLMNRReport,           \* vIGMP_Init registered the LLMNR report
    last                    \* inputs and outputs of the last handler call

vars == <<xIGMP_ScheduleList, xMulticastGroupsList, xHeap, bHeapFault,
          uiNumIGMP_Queries, uiNumIGMP_Reports, bLLMNRReport, last>>

(***************************************************************************)
(* Bit operations of C on unsigned values.                                 *)
(***************************************************************************)
RECURSIVE BitAnd(_, _)
BitAnd(a, b) ==
    IF a = 0 \/ b = 0 THEN 0
    ELSE (a % 2) * (b % 2) + 2 * BitAnd(a \div 2, b \div 2)

RECURSIVE BitOr(_, _)
BitOr(a, b) ==
    IF a = 0 THEN b
    ELSE IF b = 0 THEN a
    ELSE (IF a % 2 = 1 \/ b % 2 = 1 THEN 1 ELSE 0) + 2 * BitOr(a \div 2, b \div 2)

ShiftRight(a, n) == a \div (2 ^ n)

Max(a, b) == IF a > b THEN a ELSE b

\* uiRandom & mask for a mask below 2^16: the high half is cleared
U32AndLow(uiRandom, mask) == BitAnd(uiRandom[2], mask)

\* ( uint32_t ) of a pointer
U32OfPtr(p) == <<p \div UINT16, p % UINT16>>

\* index of the first element of list whose group address is addr, 0 if none
RECURSIVE FindFrom(_, _, _)
FindFrom(list, addr, i) ==
    IF i > Len(list) THEN 0
    ELSE IF list[i].addr = addr THEN i
    ELSE FindFrom(list, addr, i + 1)

Find(list, addr) == FindFrom(list, addr, 1)

RemoveAt(list, i) == SubSeq(list, 1, i - 1) \o SubSeq(list, i + 1, Len(list))

(***************************************************************************)
(* The registry (xIGMP_ScheduleList).  An entry is                         *)
(* [ptr, addr, xNumSockets, ucCountDown].                                  *)
(***************************************************************************)
\* the initial countdown without the floor of 2
UnsolicitedCountDown_NoFloor(pNewEntry, rnd) ==
    U32AndLow(IF rnd = FAIL THEN U32OfPtr(pNewEntry) ELSE rnd, 7)

\* the initial countdown drawn from 3 .. 10
UnsolicitedCountDown_Late(pNewEntry, rnd) ==
    3 + U32AndLow(IF rnd = FAIL THEN U32OfPtr(pNewEntry) ELSE rnd, 7)

\* xAddIGMPReportToList, the initial countdown of a new entry
UnsolicitedCountDown(pNewEntry, rnd) ==
    LET uiRandom == IF rnd = FAIL THEN U32OfPtr(pNewEntry) ELSE rnd
    IN  (2 + U32AndLow(uiRandom, 7)) % UINT8

\* xAddIGMPReportToList without the scan for a duplicate
xAdd_NoScan(list, pNewEntry, addr, rnd) ==
    [list |-> Append(list, [ptr |-> pNewEntry, addr |-> addr, xNumSockets |-> 1,
                            ucCountDown |-> UnsolicitedCountDown(pNewEntry, rnd)]),
     ret |-> pdTRUE]

\* xAddIGMPReportToList that schedules the report again on a duplicate
xAdd_Reschedule(list, pNewEntry, addr, rnd) ==
    LET i == Find(list, addr)
    IN  IF i # 0
        THEN [list |-> [list EXCEPT ![i].xNumSockets = @ + 1,
                                    ![i].ucCountDown =
                                        UnsolicitedCountDown(pNewEntry, rnd) + 1],
              ret |-> pdFALSE]
        ELSE [list |-> Append(list, [ptr |-> pNewEntry, addr |-> addr,
                                     xNumSockets |-> 1,
                                     ucCountDown |-> UnsolicitedCountDown(pNewEntry, rnd)]),
              ret |-> pdTRUE]

xAddIGMPReportToList(list, pNewEntry, addr, rnd) ==
    LET i == Find(list, addr)
    IN  IF i # 0
        THEN [list |-> [list EXCEPT ![i].xNumSockets = @ + 1], ret |-> pdFALSE]
        ELSE [list |-> Append(list, [ptr |-> pNewEntry, addr |-> addr,
                                     xNumSockets |-> 1,
                                     ucCountDown |-> UnsolicitedCountDown(pNewEntry, rnd)]),
              ret |-> pdTRUE]

\* vRemoveIGMPReportFromList that detaches the entry whatever its socket count
vRemove_IgnoreCount(list, addr) ==
    LET i == Find(list, addr)
    IN  IF i = 0
        THEN [list |-> list, freed |-> <<>>]
        ELSE [list |-> RemoveAt(list, i), freed |-> <<list[i].ptr>>]

\* vRemoveIGMPReportFromList that keeps an entry whose socket count is 0
vRemove_KeepAtZero(list, addr) ==
    LET i == Find(list, addr)
    IN  IF i = 0 \/ list[i].xNumSockets = 0
        THEN [list |-> list, freed |-> <<>>]
        ELSE [list |-> [list EXCEPT ![i].xNumSockets = @ - 1], freed |-> <<>>]

\* freed: the descriptors handed to vPortFree
vRemoveIGMPReportFromList(list, addr) ==
    LET i == Find(list, addr)
    IN  IF i = 0
        THEN [list |-> list, freed |-> <<>>]
        ELSE LET n == IF list[i].xNumSockets > 0
                      THEN list[i].xNumSockets - 1
                      ELSE list[i].xNumSockets
             IN  IF n = 0
                 THEN [list |-> RemoveAt(list, i), freed |-> <<list[i].ptr>>]
                 ELSE [list |-> [list EXCEPT ![i].xNumSockets = n], freed |-> <<>>]

(***************************************************************************)
(* The heap of report descriptors (pvPortMalloc / vPortFree).              *)
(***************************************************************************)
RECURSIVE HeapAfter(_, _)
HeapAfter(heap, freed) ==
    IF freed = <<>> THEN heap
    ELSE HeapAfter(heap \ {Head(freed)}, Tail(freed))

RECURSIVE FaultAfter(_, _)
FaultAfter(heap, freed) ==
    IF freed = <<>> THEN FALSE
    ELSE Head(freed) \notin heap \/ FaultAfter(heap \ {Head(freed)}, Tail(freed))

(***************************************************************************)
(* eProcessIGMPPacket, general query: the delay drawn for one entry.       *)
(***************************************************************************)
\* uint8_t ucMaxRespTime = max( 2, ucMaxResponseTime ); ucMaxRespTime--;
WindowOf(ucMaxResponseTime) == ((Max(2, ucMaxResponseTime) % UINT8) - 1) % UINT8

RandMaskOf(ucMaxRespTime) ==
    LET n0 == ucMaxRespTime - 1
        n1 == BitOr(n0, ShiftRight(n0, 1))
        n2 == BitOr(n1, ShiftRight(n1, 2))
    IN  IF n2 = 0 THEN 1 ELSE n2

\* the masked random number without the reduction to the window
ReduceToWindow_None(uiRandom, ucMaxRespTime) == uiRandom

RECURSIVE ReduceToWindow(_, _)
ReduceToWindow(uiRandom, ucMaxRespTime) ==
    IF uiRandom > ucMaxRespTime
    THEN ReduceToWindow(uiRandom - ucMaxRespTime, ucMaxRespTime)
    ELSE uiRandom

\* the masked random number taken as it is
RandomCountDown_Masked(rnd, RandMask, ucMaxRespTime) ==
    U32AndLow(rnd, RandMask) % UINT8

RandomCountDown(rnd, RandMask, ucMaxRespTime) ==
    LET masked == U32AndLow(rnd, RandMask)
        nonzero == IF masked = 0 THEN 1 ELSE masked
    IN  ReduceToWindow(nonzero, ucMaxRespTime) % UINT8

\* the condition with > in place of >=
NeedsSchedule_Strict(ucCountDown, ucMaxResponseTime) ==
    (ucCountDown <= 0) \/ (ucCountDown > ucMaxResponseTime)

\* every entry is rescheduled
NeedsSchedule_Always(ucCountDown, ucMaxResponseTime) ==
    ucCountDown >= 0

NeedsSchedule(ucCountDown, ucMaxResponseTime) ==
    (ucCountDown <= 0) \/ (ucCountDown >= ucMaxResponseTime)

\* the sweep with a fallback counter that never wraps
RECURSIVE ScheduleReports_NoWrap(_, _, _, _, _, _, _)
ScheduleReports_NoWrap(list, i, ucMaxResponseTime, rnd, k, uiNonRandomCounter, drawn) ==
    IF i > Len(list) THEN [list |-> list, drawn |-> drawn]
    ELSE IF ~NeedsSchedule(list[i].ucCountDown, ucMaxResponseTime)
    THEN ScheduleReports_NoWrap(list, i + 1, ucMaxResponseTime, rnd, k,
                                uiNonRandomCounter, drawn)
    ELSE ScheduleReports_NoWrap(
             [list EXCEPT ![i].ucCountDown =
                  IF rnd[k] = FAIL THEN uiNonRandomCounter % UINT8
                  ELSE RandomCountDown(rnd[k],
                           RandMaskOf(WindowOf(ucMaxResponseTime)),
                           WindowOf(ucMaxResponseTime))],
             i + 1, ucMaxResponseTime, rnd, k + 1,
             IF rnd[k] = FAIL THEN uiNonRandomCounter + 1 ELSE uiNonRandomCounter,
             drawn \cup {i})

\* the sweep over the registry; rnd[k] is the outcome of the k-th call of
\* xApplicationGetRandomNumber, drawn the indices whose countdown was redrawn
RECURSIVE ScheduleReports(_, _, _, _, _, _, _)
ScheduleReports(list, i, ucMaxResponseTime, rnd, k, uiNonRandomCounter, drawn) ==
    IF i > Len(list) THEN [list |-> list, drawn |-> drawn]
    ELSE IF ~NeedsSchedule(list[i].ucCountDown, ucMaxResponseTime)
    THEN ScheduleReports(list, i + 1, ucMaxResponseTime, rnd, k,
                         uiNonRandomCounter, drawn)
    ELSE LET ucMaxRespTime == WindowOf(ucMaxResponseTime)
         IN  IF rnd[k] = FAIL
             THEN ScheduleReports(
                      [list EXCEPT ![i].ucCountDown = uiNonRandomCounter % UINT8],
                      i + 1, ucMaxResponseTime, rnd, k + 1,
                      IF uiNonRandomCounter + 1 > ucMaxRespTime
                      THEN 1 ELSE uiNonRandomCounter + 1,
                      drawn \cup {i})
             ELSE ScheduleReports(
                      [list EXCEPT ![i].ucCountDown =
                           RandomCountDown(rnd[k], RandMaskOf(ucMaxRespTime),
                                           ucMaxRespTime)],
                      i + 1, ucMaxResponseTime, rnd, k + 1,
                      uiNonRandomCounter, drawn \cup {i})

GeneralQuery(list, ucMaxResponseTime, rnd) ==
    ScheduleReports(list, 1, ucMaxResponseTime, rnd, 1, 1, {})

(***************************************************************************)
(* Outbound frames.                                                        *)
(***************************************************************************)
\* the IPv4-multicast-to-MAC mapping: 01:00:5e and the low 23 address bits
vSetMultiCastIPv4MacAddress(ulIPAddress) ==
    <<1, 0, 94,
      BitAnd(ulIPAddress[2], 127), ulIPAddress[3], ulIPAddress[4]>>

\* the frame vSendIGMP hands to the network interface; <<>> when
\* pxGetNetworkBufferWithDescriptor returned NULL
\* vSendIGMP that addresses the frame to the all-hosts group
vSendIGMP_AllHosts(bBuffer, ucIgmpMsgType, ucIgmpRespTime, uiMulticastGroup, uiSendToAddr) ==
    IF ~bBuffer THEN <<>>
    ELSE <<[xDestinationAddress |-> vSetMultiCastIPv4MacAddress(ipIGMP_IP_ADDR),
            ucTypeOfMessage |-> ucIgmpMsgType,
            ucMaxResponseTime |-> ucIgmpRespTime,
            uiGroupAddress |-> uiMulticastGroup,
            ulDestinationIPAddress |-> ipIGMP_IP_ADDR,
            ucProtocol |-> ipPROTOCOL_IGMP,
            ucTimeToLive |-> 1]>>

vSendIGMP(bBuffer, ucIgmpMsgType, ucIgmpRespTime, uiMulticastGroup, uiSendToAddr) ==
    IF ~bBuffer THEN <<>>
    ELSE <<[xDestinationAddress |-> vSetMultiCastIPv4MacAddress(uiSendToAddr),
            ucTypeOfMessage |-> ucIgmpMsgType,
            ucMaxResponseTime |-> ucIgmpRespTime,
            uiGroupAddress |-> uiMulticastGroup,
            ulDestinationIPAddress |-> uiSendToAddr,
            ucProtocol |-> ipPROTOCOL_IGMP,
            ucTimeToLive |-> 1]>>

(***************************************************************************)
(* vHandleIGMP_Event: the sweep of one tick.  buf[k] tells whether the     *)
(* k-th buffer request of the sweep succeeds.                              *)
(***************************************************************************)
\* the sweep without the test ucCountDown > 0
RECURSIVE HandleFrom_NoGuard(_, _, _, _, _, _)
HandleFrom_NoGuard(list, i, buf, k, sent, nobuf) ==
    IF i > Len(list) THEN [list |-> list, sent |-> sent, nobuf |-> nobuf]
    ELSE LET c == (list[i].ucCountDown - 1) % UINT8
             l2 == [list EXCEPT ![i].ucCountDown = c]
         IN  IF c = 0
             THEN HandleFrom_NoGuard(l2, i + 1, buf, k + 1,
                      sent \o vSendIGMP(buf[k], ipIGMP_MEMBERSHIP_REPORT_V2, 0,
                                        list[i].addr, list[i].addr),
                      IF buf[k] THEN nobuf ELSE Append(nobuf, list[i].addr))
             ELSE HandleFrom_NoGuard(l2, i + 1, buf, k, sent, nobuf)

\* the sweep that ends at the first report that finds no network buffer
RECURSIVE HandleFrom_StopOnMiss(_, _, _, _, _, _)
HandleFrom_StopOnMiss(list, i, buf, k, sent, nobuf) ==
    IF i > Len(list) THEN [list |-> list, sent |-> sent, nobuf |-> nobuf]
    ELSE IF list[i].ucCountDown > 0
    THEN LET c == (list[i].ucCountDown - 1) % UINT8
             l2 == [list EXCEPT ![i].ucCountDown = c]
         IN  IF c = 0
             THEN IF buf[k]
                  THEN HandleFrom_StopOnMiss(l2, i + 1, buf, k + 1,
                           sent \o vSendIGMP(TRUE, ipIGMP_MEMBERSHIP_REPORT_V2,
                                             0, list[i].addr, list[i].addr),
                           nobuf)
                  ELSE [list |-> l2, sent |-> sent,
                        nobuf |-> Append(nobuf, list[i].addr)]
             ELSE HandleFrom_StopOnMiss(l2, i + 1, buf, k, sent, nobuf)
    ELSE HandleFrom_StopOnMiss(list, i + 1, buf, k, sent, nobuf)

RECURSIVE HandleFrom(_, _, _, _, _, _)
HandleFrom(list, i, buf, k, sent, nobuf) ==
    IF i > Len(list) THEN [list |-> list, sent |-> sent, nobuf |-> nobuf]
    ELSE IF list[i].ucCountDown > 0
    THEN LET c == (list[i].ucCountDown - 1) % UINT8
             l2 == [list EXCEPT ![i].ucCountDown = c]
         IN  IF c = 0
             THEN HandleFrom(l2, i + 1, buf, k + 1,
                             sent \o vSendIGMP(buf[k], ipIGMP_MEMBERSHIP_REPORT_V2, 0,
                                               list[i].addr, list[i].addr),
                             IF buf[k] THEN nobuf ELSE Append(nobuf, list[i].addr))
             ELSE HandleFrom(l2, i + 1, buf, k, sent, nobuf)
    ELSE HandleFrom(list, i + 1, buf, k, sent, nobuf)

vHandleIGMP_Event(list, buf) == HandleFrom(list, 1, buf, 1, <<>>, <<>>)

(***************************************************************************)
(* vModifyMulticastMembership.  groups is the socket's list, an element is *)
(* [addr, pxIGMPReportDesc]; pxDesc is the candidate report descriptor of  *)
(* the request (NULL if none); bSame tells that the request is the matched *)
(* list item itself (the call from vSocketClose).                          *)
(* Result: the new registry and socket list, the calls of the link-layer   *)
(* filter (emac), the descriptors handed to vPortFree (freed), the result  *)
(* of xAddIGMPReportToList (ret, -1 when not called) and the two flags.    *)
(***************************************************************************)
NotCalled == -1

\* vModifyMulticastMembership that frees the candidate although the registry
\* consumed it
vModify_FreeConsumed(list, groups, addr, bAction, pxDesc, rnd, bSame) ==
    LET i == Find(groups, addr)
        r == xAddIGMPReportToList(list, pxDesc, addr, rnd)
    IN  IF bAction = eSocketOptAddMembership /\ i = 0 /\ pxDesc # NULL
        THEN [list |-> r.list,
              groups |-> Append(groups, [addr |-> addr, pxIGMPReportDesc |-> NULL]),
              emac |-> <<<<"add", addr>>>>, freed |-> <<pxDesc>>, ret |-> r.ret,
              bFreeInputItem |-> FALSE, bFreeMatchedItem |-> FALSE]
        ELSE [list |-> list, groups |-> groups, emac |-> <<>>,
              freed |-> IF pxDesc # NULL THEN <<pxDesc>> ELSE <<>>,
              ret |-> NotCalled,
              bFreeInputItem |-> TRUE, bFreeMatchedItem |-> FALSE]

\* vModifyMulticastMembership that hands the candidate of a socket's second
\* join to the registry
vModify_CountDuplicate(list, groups, addr, bAction, pxDesc, rnd, bSame) ==
    LET r == xAddIGMPReportToList(list, pxDesc, addr, rnd)
    IN  IF bAction = eSocketOptAddMembership /\ pxDesc # NULL
        THEN [list |-> r.list,
              groups |-> IF Find(groups, addr) = 0
                         THEN Append(groups, [addr |-> addr,
                                              pxIGMPReportDesc |-> NULL])
                         ELSE groups,
              emac |-> IF Find(groups, addr) = 0
                       THEN <<<<"add", addr>>>> ELSE <<>>,
              freed |-> IF r.ret # pdTRUE THEN <<pxDesc>> ELSE <<>>,
              ret |-> IF Find(groups, addr) = 0 THEN r.ret ELSE NotCalled,
              bFreeInputItem |-> Find(groups, addr) # 0,
              bFreeMatchedItem |-> FALSE]
        ELSE [list |-> list, groups |-> groups, emac |-> <<>>, freed |-> <<>>,
              ret |-> NotCalled, bFreeInputItem |-> TRUE,
              bFreeMatchedItem |-> FALSE]

\* vModifyMulticastMembership that inserts the record without the scan of
\* the socket's list
vModify_NoScan(list, groups, addr, bAction, pxDesc, rnd, bSame) ==
    IF bAction = eSocketOptAddMembership
    THEN [list |-> list,
          groups |-> Append(groups, [addr |-> addr, pxIGMPReportDesc |-> NULL]),
          emac |-> <<<<"add", addr>>>>,
          freed |-> IF pxDesc # NULL THEN <<pxDesc>> ELSE <<>>,
          ret |-> NotCalled, bFreeInputItem |-> FALSE,
          bFreeMatchedItem |-> FALSE]
    ELSE [list |-> list,
          groups |-> IF Find(groups, addr) = 0 THEN groups
                     ELSE RemoveAt(groups, Find(groups, addr)),
          emac |-> <<>>, freed |-> <<>>, ret |-> NotCalled,
          bFreeInputItem |-> TRUE, bFreeMatchedItem |-> FALSE]

\* vModifyMulticastMembership that looks up the registry on every leave
vModify_LeaveUnmatched(list, groups, addr, bAction, pxDesc, rnd, bSame) ==
    LET i == Find(groups, addr)
        r == vRemoveIGMPReportFromList(list, addr)
    IN  IF bAction = eSocketOptDropMembership
        THEN [list |-> r.list,
              groups |-> IF i = 0 THEN groups ELSE RemoveAt(groups, i),
              emac |-> IF i = 0 THEN <<>> ELSE <<<<"remove", addr>>>>,
              freed |-> r.freed, ret |-> NotCalled,
              bFreeInputItem |-> ~bSame, bFreeMatchedItem |-> i # 0]
        ELSE [list |-> list, groups |-> Append(groups,
                  [addr |-> addr, pxIGMPReportDesc |-> NULL]),
              emac |-> <<>>, freed |-> <<>>, ret |-> NotCalled,
              bFreeInputItem |-> FALSE, bFreeMatchedItem |-> FALSE]

vModifyMulticastMembership(list, groups, addr, bAction, pxDesc, rnd, bSame) ==
    LET i == Find(groups, addr)
        nothing == [list |-> list, groups |-> groups, emac |-> <<>>,
                    freed |-> <<>>, ret |-> NotCalled,
                    bFreeInputItem |-> TRUE, bFreeMatchedItem |-> FALSE]
    IN  IF bAction # eSocketOptAddMembership /\ bAction # eSocketOptDropMembership
        THEN [nothing EXCEPT !.bFreeInputItem = FALSE]
        ELSE IF bAction = eSocketOptAddMembership
        THEN IF i = 0
             THEN IF pxDesc # NULL
                  THEN LET r == xAddIGMPReportToList(list, pxDesc, addr, rnd)
                       IN  [list |-> r.list,
                            groups |-> Append(groups,
                                [addr |-> addr,
                                 pxIGMPReportDesc |->
                                     IF r.ret # pdTRUE THEN NULL ELSE pxDesc]),
                            emac |-> <<<<"add", addr>>>>,
                            freed |-> IF r.ret # pdTRUE THEN <<pxDesc>> ELSE <<>>,
                            ret |-> r.ret,
                            bFreeInputItem |-> FALSE, bFreeMatchedItem |-> FALSE]
                  ELSE [nothing EXCEPT
                            !.groups = Append(groups,
                                [addr |-> addr, pxIGMPReportDesc |-> NULL]),
                            !.emac = <<<<"add", addr>>>>,
                            !.bFreeInputItem = FALSE]
             ELSE [nothing EXCEPT
                       !.freed = IF pxDesc # NULL THEN <<pxDesc>> ELSE <<>>]
        ELSE IF i = 0
             THEN nothing
             ELSE LET r == vRemoveIGMPReportFromList(list, groups[i].addr)
                  IN  [list |-> r.list,
                       groups |-> RemoveAt(groups, i),
                       emac |-> <<<<"remove", addr>>>>,
                       freed |-> r.freed,
                       ret |-> NotCalled,
                       bFreeInputItem |-> ~bSame, bFreeMatchedItem |-> TRUE]

(***************************************************************************)
(* eProcessIGMPPacket.                                                     *)
(***************************************************************************)
\* eProcessIGMPPacket without the test of the frame's length
eProcess_NoLengthCheck(list, queries, reports, xDataLength, ucTypeOfMessage, ucMaxResponseTime, uiGroupAddress, rnd) ==
    IF ucTypeOfMessage = ipIGMP_MEMBERSHIP_QUERY
    THEN [list |-> IF uiGroupAddress = AnyAddr
                   THEN GeneralQuery(list, ucMaxResponseTime, rnd).list
                   ELSE list,
          queries |-> queries + 1, reports |-> reports,
          drawn |-> IF uiGroupAddress = AnyAddr
                    THEN GeneralQuery(list, ucMaxResponseTime, rnd).drawn
                    ELSE {},
          eReturn |-> "eReleaseBuffer"]
    ELSE [list |-> list, queries |-> queries,
          reports |-> IF ucTypeOfMessage = ipIGMP_LEAVE_GROUP
                      THEN reports ELSE reports + 1,
          drawn |-> {}, eReturn |-> "eReleaseBuffer"]

\* eProcessIGMPPacket that reschedules on a membership report as well
eProcess_ReportReschedules(list, queries, reports, xDataLength, ucTypeOfMessage, ucMaxResponseTime, uiGroupAddress, rnd) ==
    IF xDataLength < sizeofIGMPPacket \/ ucTypeOfMessage = ipIGMP_LEAVE_GROUP
    THEN [list |-> list, queries |-> queries, reports |-> reports,
          drawn |-> {}, eReturn |-> "eReleaseBuffer"]
    ELSE [list |-> IF uiGroupAddress = AnyAddr
                      /\ ucTypeOfMessage = ipIGMP_MEMBERSHIP_QUERY
                   THEN GeneralQuery(list, ucMaxResponseTime, rnd).list
                   ELSE IF ucTypeOfMessage = ipIGMP_MEMBERSHIP_QUERY THEN list
                   ELSE GeneralQuery(list, ucMaxResponseTime, rnd).list,
          queries |-> IF ucTypeOfMessage = ipIGMP_MEMBERSHIP_QUERY
                      THEN queries + 1 ELSE queries,
          reports |-> IF ucTypeOfMessage = ipIGMP_MEMBERSHIP_QUERY
                      THEN reports ELSE reports + 1,
          drawn |-> IF uiGroupAddress = AnyAddr
                       /\ ucTypeOfMessage = ipIGMP_MEMBERSHIP_QUERY
                    THEN GeneralQuery(list, ucMaxResponseTime, rnd).drawn
                    ELSE {},
          eReturn |-> "eReleaseBuffer"]

\* eProcessIGMPPacket that reschedules on every membership query
eProcess_EveryQuery(list, queries, reports, xDataLength, ucTypeOfMessage, ucMaxResponseTime, uiGroupAddress, rnd) ==
    IF xDataLength >= sizeofIGMPPacket
       /\ ucTypeOfMessage = ipIGMP_MEMBERSHIP_QUERY
    THEN [list |-> GeneralQuery(list, ucMaxResponseTime, rnd).list,
          queries |-> queries + 1, reports |-> reports,
          drawn |-> GeneralQuery(list, ucMaxResponseTime, rnd).drawn,
          eReturn |-> "eReleaseBuffer"]
    ELSE [list |-> list, queries |-> queries,
          reports |-> IF xDataLength >= sizeofIGMPPacket
                         /\ ucTypeOfMessage # ipIGMP_LEAVE_GROUP
                      THEN reports + 1 ELSE reports,
          drawn |-> {}, eReturn |-> "eReleaseBuffer"]

eProcessIGMPPacket(list, queries, reports, xDataLength, ucTypeOfMessage, ucMaxResponseTime, uiGroupAddress, rnd) ==
    LET same == [list |-> list, queries |-> queries, reports |-> reports,
                 drawn |-> {}, eReturn |-> "eReleaseBuffer"]
    IN  IF xDataLength < sizeofIGMPPacket
        THEN same
        ELSE IF ucTypeOfMessage = ipIGMP_MEMBERSHIP_QUERY
        THEN IF uiGroupAddress = AnyAddr
             THEN LET r == GeneralQuery(list, ucMaxResponseTime, rnd)
                  IN  [same EXCEPT !.list = r.list, !.drawn = r.drawn,
                                   !.queries = queries + 1]
             ELSE [same EXCEPT !.queries = queries + 1]
        ELSE IF ucTypeOfMessage \in {ipIGMP_MEMBERSHIP_REPORT_V1,
                                     ipIGMP_MEMBERSHIP_REPORT_V2,
                                     ipIGMP_MEMBERSHIP_REPORT_V3}
        THEN [same EXCEPT !.reports = reports + 1]
        ELSE same

(***************************************************************************)
(* The state machine.                                                      *)
(***************************************************************************)
\* last: the handler that ran last (op), the frames it handed to the network
\* interface (sent), the groups whose report found no network buffer (nobuf)
\* and, in a scope that records them, its inputs (in) and its results (out)
\* and, in a scope that keeps them, the tick counts of every group (watch):
\*   age      the ticks since xAddIGMPReportToList inserted the group's entry
\*            for a join, while no report of the group has been attempted
\*            (-1 otherwise)
\*   queried  a general query was processed since that insertion
\*   due      the ticks left of the smallest window max(M,2)-1 of the general
\*            queries processed since the group's last report attempt
\*            (-1 when there is none)
NoWatch == [g \in Groups |-> [age |-> -1, queried |-> FALSE, due |-> -1]]

NoLast == [op |-> "none", sent |-> <<>>, nobuf |-> <<>>, in |-> <<>>, out |-> <<>>, watch |-> NoWatch]

\* the largest initial countdown, 2 + 0x07
MaxUnsolicited == 9

\* the tick counts after a membership request changed the registry from list
\* to list2
WatchAfterModify(w, list, list2) ==
    [g \in Groups |->
        IF Find(list2, g) = 0 THEN NoWatch[g]
        ELSE IF Find(list, g) = 0
        THEN [age |-> 0, queried |-> FALSE, due |-> -1]
        ELSE w[g]]

\* the tick counts after a packet; bGeneral: it was a general query
WatchAfterPacket(w, list, bGeneral, ucMaxResponseTime) ==
    [g \in Groups |->
        IF ~bGeneral \/ Find(list, g) = 0 THEN w[g]
        ELSE [age |-> w[g].age,
              queried |-> (w[g].age >= 0),
              due |-> IF w[g].due >= 0 /\ w[g].due < WindowOf(ucMaxResponseTime)
                      THEN w[g].due ELSE WindowOf(ucMaxResponseTime)]]

\* the tick counts after a tick that sent the frames sent and found no
\* buffer for the groups nobuf
WatchAfterTick(w, sent, nobuf) ==
    [g \in Groups |->
        IF \/ \E k \in 1 .. Len(sent) : sent[k].uiGroupAddress = g
           \/ \E k \in 1 .. Len(nobuf) : nobuf[k] = g
        THEN NoWatch[g]
        ELSE [age |-> IF w[g].age >= 0 /\ w[g].age < MaxUnsolicited
                      THEN w[g].age + 1 ELSE w[g].age,
              queried |-> w[g].queried,
              due |-> IF w[g].due > 0 THEN w[g].due - 1 ELSE w[g].due]]

\* vIGMP_Init: the state after construction.  bLLMNR is ipconfigUSE_LLMNR;
\* pxIRD is what pvPortMalloc returned (NULL when it failed).
vIGMP_Init(bLLMNR, pxIRD, rnd) ==
    IF bLLMNR /\ pxIRD # NULL
    THEN LET r == xAddIGMPReportToList(<<>>, pxIRD, ipLLMNR_IP_ADDR, rnd)
         IN  [list |-> r.list, ret |-> r.ret,
              freed |-> IF r.ret # pdTRUE THEN <<pxIRD>> ELSE <<>>]
    ELSE [list |-> <<>>, ret |-> NotCalled, freed |-> <<>>]

InitWith(sc) ==
    \E bLLMNR \in BOOLEAN, pxIRD \in sc.ptrs \cup {NULL}, rnd \in sc.randJoin :
        LET r == vIGMP_Init(bLLMNR, pxIRD, rnd)
        IN  /\ xIGMP_ScheduleList = r.list
            /\ xMulticastGroupsList = [s \in Sockets |-> <<>>]
            /\ xHeap = HeapAfter(IF bLLMNR /\ pxIRD # NULL THEN {pxIRD} ELSE {}, r.freed)
            /\ bHeapFault = FALSE
            /\ uiNumIGMP_Queries = 0
            /\ uiNumIGMP_Reports = 0
            /\ bLLMNRReport = (r.ret = pdTRUE)
            /\ last = [NoLast EXCEPT !.op = "init"]

\* the effect of one call of vModifyMulticastMembership on the state
Modify(sc, s, addr, bAction, pxDesc, rnd, bSame) ==
    \E r \in {vModifyMulticastMembership(xIGMP_ScheduleList,
                  xMulticastGroupsList[s], addr, bAction, pxDesc, rnd, bSame)},
       heap0 \in {IF pxDesc = NULL THEN xHeap ELSE xHeap \cup {pxDesc}} :
        /\ xIGMP_ScheduleList' = r.list
        /\ xMulticastGroupsList' = [xMulticastGroupsList EXCEPT ![s] = r.groups]
        /\ xHeap' = HeapAfter(heap0, r.freed)
        /\ bHeapFault' = (bHeapFault \/ FaultAfter(heap0, r.freed))
        /\ last' = [NoLast EXCEPT
               !.op = IF bAction = eSocketOptAddMembership THEN "join"
                      ELSE IF bAction = eSocketOptDropMembership THEN "leave"
                      ELSE "other",
               !.in = IF sc.record THEN <<s, addr, pxDesc>> ELSE <<>>,
               !.out = IF sc.record THEN <<r.ret, r.freed, r.emac>> ELSE <<>>,
               !.watch = IF sc.watch
                         THEN WatchAfterModify(last.watch, xIGMP_ScheduleList,
                                               r.list)
                         ELSE NoWatch]
        /\ UNCHANGED <<uiNumIGMP_Queries, uiNumIGMP_Reports, bLLMNRReport>>

\* a join request of socket s; the socket layer allocated the candidate pxDesc
Join(sc) ==
    \E s \in sc.socks, addr \in Groups,
       pxDesc \in (IF TRUE \in sc.cand THEN sc.ptrs \ xHeap ELSE {})
                  \cup (IF FALSE \in sc.cand THEN {NULL} ELSE {}),
       rnd \in sc.randJoin :
        Modify(sc, s, addr, eSocketOptAddMembership, pxDesc, rnd, FALSE)

\* a leave request of socket s; bSame: the request is the list item itself
Leave(sc) ==
    \E s \in sc.socks, addr \in Groups, bSame \in BOOLEAN :
        /\ bSame => Find(xMulticastGroupsList[s], addr) # 0
        /\ Modify(sc, s, addr, eSocketOptDropMembership, NULL, FAIL, bSame)

\* a request whose option is neither add nor drop
OtherOption(sc) ==
    \E s \in sc.socks, addr \in Groups :
        Modify(sc, s, addr, eSocketOptOther, NULL, FAIL, FALSE)

\* the effect of one call of eProcessIGMPPacket on the state
Process(sc, xDataLength, type, time, gaddr, rnd) ==
    \E r \in {eProcessIGMPPacket(xIGMP_ScheduleList, uiNumIGMP_Queries,
                  uiNumIGMP_Reports, xDataLength, type, time, gaddr, rnd)} :
        /\ r.queries <= MaxQueries
        /\ r.reports <= MaxReports
        /\ xIGMP_ScheduleList' = r.list
        /\ uiNumIGMP_Queries' = r.queries
        /\ uiNumIGMP_Reports' = r.reports
        /\ last' = [NoLast EXCEPT
               !.op = "packet",
               !.in = IF sc.record
                      THEN <<xDataLength, type, time, gaddr, rnd>> ELSE <<>>,
               !.out = IF sc.record THEN <<r.drawn, r.eReturn>> ELSE <<>>,
               !.watch = IF sc.watch
                         THEN WatchAfterPacket(last.watch, xIGMP_ScheduleList,
                                  /\ xDataLength >= sizeofIGMPPacket
                                  /\ type = ipIGMP_MEMBERSHIP_QUERY
                                  /\ gaddr = AnyAddr, time)
                         ELSE NoWatch]
        /\ UNCHANGED <<xMulticastGroupsList, xHeap, bHeapFault, bLLMNRReport>>

NoDraws == [i \in 1 .. Len(xIGMP_ScheduleList) |-> FAIL]

\* an inbound IGMP frame: a general query, a group-specific query, a report
\* or a message of another type, or a frame one byte short of the headers
ProcessPacket(sc) ==
    \/ \E time \in sc.times,
          rnd \in [1 .. Len(xIGMP_ScheduleList) ->
                      sc.randQuery[Len(xIGMP_ScheduleList)]] :
           Process(sc, sizeofIGMPPacket, ipIGMP_MEMBERSHIP_QUERY, time, AnyAddr, rnd)
    \/ \E time \in sc.times, gaddr \in Groups :
           Process(sc, sizeofIGMPPacket, ipIGMP_MEMBERSHIP_QUERY, time, gaddr, NoDraws)
    \/ \E type \in {ipIGMP_MEMBERSHIP_REPORT_V1, ipIGMP_MEMBERSHIP_REPORT_V2,
                    ipIGMP_MEMBERSHIP_REPORT_V3, ipIGMP_LEAVE_GROUP},
          gaddr \in Groups :
           Process(sc, sizeofIGMPPacket, type, 0, gaddr, NoDraws)
    \/ \E time \in sc.times :
           Process(sc, sizeofIGMPPacket - 1, ipIGMP_MEMBERSHIP_QUERY, time, AnyAddr,
                   NoDraws)

\* the IGMP timer event
Tick(sc) ==
    \E buf \in [1 .. Len(xIGMP_ScheduleList) -> sc.bufs] :
        \E r \in {vHandleIGMP_Event(xIGMP_ScheduleList, buf)} :
            /\ xIGMP_ScheduleList' = r.list
            /\ last' = [NoLast EXCEPT
                   !.op = "tick", !.sent = r.sent, !.nobuf = r.nobuf,
                   !.watch = IF sc.watch
                             THEN WatchAfterTick(last.watch, r.sent, r.nobuf)
                             ELSE NoWatch]
            /\ UNCHANGED <<xMulticastGroupsList, xHeap, bHeapFault,
                           uiNumIGMP_Queries, uiNumIGMP_Reports, bLLMNRReport>>

NextWith(sc) ==
    \/ Join(sc)
    \/ Leave(sc)
    \/ OtherOption(sc)
    \/ ProcessPacket(sc)
    \/ Tick(sc)

(***************************************************************************)
(* The whole system: every handler of the IP task.                         *)
(***************************************************************************)
Init == InitWith(SysScope)

Next == NextWith(SysScope)

Spec == Init /\ [][Next]_vars

(***************************************************************************)
(* The whole system with the tick counts kept.                             *)
(***************************************************************************)
InitWatch == InitWith(WatchScope)

NextWatch == NextWith(WatchScope)

SpecWatch == InitWatch /\ [][NextWatch]_vars

(***************************************************************************)
(* One inbound frame, processed in a state where socket 1 has joined one,  *)
(* two or three groups and the reports have any of the countdowns a        *)
(* general query with max-response-time 255, joins and ticks lead to.      *)
(***************************************************************************)
InitQuery ==
    \E n \in 1 .. 3, c1 \in QueryCountDowns, c2 \in QueryCountDowns,
       c3 \in QueryCountDowns :
        /\ (n = 1) => (c1 = 0 /\ c2 = 0)
        /\ (n < 3) => (c3 = 0)
        /\ xIGMP_ScheduleList =
               SubSeq(<<[ptr |-> 536870928, addr |-> ipLLMNR_IP_ADDR,
                         xNumSockets |-> 1, ucCountDown |-> c1],
                        [ptr |-> 536870932, addr |-> OtherGroup,
                         xNumSockets |-> 1, ucCountDown |-> c2],
                        [ptr |-> 536870937, addr |-> ThirdGroup,
                         xNumSockets |-> 1, ucCountDown |-> c3]>>, 1, n)
        /\ xMulticastGroupsList =
               [s \in Sockets |->
                   IF s = 1
                   THEN SubSeq(<<[addr |-> ipLLMNR_IP_ADDR,
                                  pxIGMPReportDesc |-> 536870928],
                                 [addr |-> OtherGroup,
                                  pxIGMPReportDesc |-> 536870932],
                                 [addr |-> ThirdGroup,
                                  pxIGMPReportDesc |-> 536870937]>>, 1, n)
                   ELSE <<>>]
        /\ xHeap = {xIGMP_ScheduleList[i].ptr : i \in 1 .. n}
        /\ bHeapFault = FALSE
        /\ uiNumIGMP_Queries = 0
        /\ uiNumIGMP_Reports = 0
        /\ bLLMNRReport = FALSE
        /\ last = [NoLast EXCEPT !.op = "init"]

NextQuery == (last.op = "init") /\ ProcessPacket(QueryScope)

SpecQuery == InitQuery /\ [][NextQuery]_vars

(***************************************************************************)
(* The membership requests of every socket.                                *)
(***************************************************************************)
InitMembership == InitWith(MemberScope)

NextMembership ==
    \/ Join(MemberScope)
    \/ Leave(MemberScope)
    \/ OtherOption(MemberScope)

SpecMembership == InitMembership /\ [][NextMembership]_vars

(***************************************************************************)
(* The membership requests of two sockets, with and without a candidate    *)
(* report descriptor.                                                      *)
(***************************************************************************)
InitOptional == InitWith(OptionalScope)

NextOptional ==
    \/ Join(OptionalScope)
    \/ Leave(OptionalScope)
    \/ OtherOption(OptionalScope)

SpecOptional == InitOptional /\ [][NextOptional]_vars

(***************************************************************************)
(* Definitions shared by the properties.                                   *)
(***************************************************************************)
Registered(g) == Find(xIGMP_ScheduleList, g) # 0

EntryOf(g) == xIGMP_ScheduleList[Find(xIGMP_ScheduleList, g)]

SocketsWith(g) == {s \in Sockets : Find(xMulticastGroupsList[s], g) # 0}

RegistryPtrs == {xIGMP_ScheduleList[i].ptr : i \in 1 .. Len(xIGMP_ScheduleList)}

RECURSIVE Count(_, _)
Count(seq, x) ==
    IF seq = <<>> THEN 0
    ELSE (IF Head(seq) = x THEN 1 ELSE 0) + Count(Tail(seq), x)

\* the group vIGMP_Init registered without a socket
PreRegistered(g) == bLLMNRReport /\ g = ipLLMNR_IP_ADDR

(***************************************************************************)
(* C1: the registry never holds two entries with the same group address.   *)
(***************************************************************************)
C1_Uniqueness ==
    \A i, j \in 1 .. Len(xIGMP_ScheduleList) :
        (i # j) => (xIGMP_ScheduleList[i].addr # xIGMP_ScheduleList[j].addr)

\* two groups are registered and a second socket has just joined one of them
C1_Witness ==
    /\ last.op = "join"
    /\ Len(xIGMP_ScheduleList) = 2
    /\ last.out[1] = pdFALSE
    /\ Cardinality(SocketsWith(last.in[2])) >= 2

(***************************************************************************)
(* C2 as stated: with a candidate in every join request, the registry has  *)
(* an entry for a group exactly when some socket's list holds the group,   *)
(* and the entry's socket count is the number of such sockets.             *)
(***************************************************************************)
C2_Original ==
    \A g \in Groups :
        /\ Registered(g) <=> (SocketsWith(g) # {})
        /\ Registered(g) => (EntryOf(g).xNumSockets = Cardinality(SocketsWith(g)))

(***************************************************************************)
(* C2 as amended: the statement above holds for every group vIGMP_Init did *)
(* not register itself; the LLMNR group it registered (ipconfigUSE_LLMNR)  *)
(* always has its entry, whose socket count is the number of sockets whose *)
(* list holds the group plus one.                                          *)
(***************************************************************************)
C2_RefCount ==
    \A g \in Groups :
        IF PreRegistered(g)
        THEN /\ Registered(g)
             /\ EntryOf(g).xNumSockets = Cardinality(SocketsWith(g)) + 1
        ELSE /\ Registered(g) <=> (SocketsWith(g) # {})
             /\ Registered(g) =>
                    (EntryOf(g).xNumSockets = Cardinality(SocketsWith(g)))

\* every socket had joined the group and all but one have left
C2_Witness ==
    /\ last.op = "leave"
    /\ last.out[3] # <<>>
    /\ ~PreRegistered(last.in[2])
    /\ Cardinality(SocketsWith(last.in[2])) = 1
    /\ Registered(last.in[2])
    /\ EntryOf(last.in[2]).xNumSockets = 1

(***************************************************************************)
(* C3: after a join request with a candidate descriptor, the descriptor is *)
(* either an entry of the registry and allocated (xAddIGMPReportToList     *)
(* returned pdTRUE), or freed exactly once and not in the registry; no     *)
(* descriptor is freed twice, freed while registered, or left allocated    *)
(* outside the registry.                                                   *)
(***************************************************************************)
C3_Ownership ==
    /\ ~bHeapFault
    /\ RegistryPtrs = xHeap
    /\ (last.op = "join" /\ last.in[3] # NULL) =>
           \/ /\ last.in[3] \in RegistryPtrs
              /\ last.in[3] \in xHeap
              /\ Count(last.out[2], last.in[3]) = 0
              /\ last.out[1] = pdTRUE
           \/ /\ last.in[3] \notin RegistryPtrs
              /\ last.in[3] \notin xHeap
              /\ Count(last.out[2], last.in[3]) = 1
              /\ last.out[1] # pdTRUE

\* a join whose candidate the registry did not consume, while another join's
\* candidate is held by the registry
C3_Witness ==
    /\ last.op = "join"
    /\ last.out[1] = pdFALSE
    /\ last.out[2] = <<last.in[3]>>
    /\ RegistryPtrs # {}

(***************************************************************************)
(* C4 as stated: a leave requests the removal from the link-layer filter   *)
(* only when the leaving socket was the last one joined to the group.      *)
(***************************************************************************)
C4_RemoveOnlyByLast ==
    (last.op = "leave" /\ last.out[3] # <<>>) => (SocketsWith(last.in[2]) = {})

(***************************************************************************)
(* C5 as stated: a join requests the addition to the link-layer filter     *)
(* only when no registry entry existed for the group before the join, that *)
(* is when xAddIGMPReportToList consumed the candidate.                    *)
(***************************************************************************)
C5_AddOnlyByFirst ==
    (last.op = "join" /\ last.out[3] # <<>>) => (last.out[1] = pdTRUE)

(***************************************************************************)
(* C6: whenever xAddIGMPReportToList inserts a new entry, by a join or by  *)
(* vIGMP_Init, the entry's socket count is 1 and its countdown is in       *)
(* 2 .. 9, whatever the random source returns and when it fails; nothing   *)
(* but a join makes the registry longer.                                   *)
(***************************************************************************)
C6_UnsolicitedWindow ==
    /\ []((last.op = "init") =>
             \A i \in 1 .. Len(xIGMP_ScheduleList) :
                 /\ xIGMP_ScheduleList[i].xNumSockets = 1
                 /\ xIGMP_ScheduleList[i].ucCountDown \in 2 .. 9)
    /\ [][Len(xIGMP_ScheduleList') > Len(xIGMP_ScheduleList) =>
             /\ last'.op = "join"
             /\ Len(xIGMP_ScheduleList') = Len(xIGMP_ScheduleList) + 1
             /\ xIGMP_ScheduleList'[Len(xIGMP_ScheduleList')].xNumSockets = 1
             /\ xIGMP_ScheduleList'[Len(xIGMP_ScheduleList')].ucCountDown
                    \in 2 .. 9]_vars

\* a join has inserted an entry whose countdown is the largest of the window
C6_Witness ==
    /\ last.op = "join"
    /\ Len(xIGMP_ScheduleList) = 2
    /\ xIGMP_ScheduleList[2].xNumSockets = 1
    /\ xIGMP_ScheduleList[2].ucCountDown = 9
    /\ xIGMP_ScheduleList[1].ucCountDown = 0

\* the last step processed a general query
IsGeneralQuery(l) ==
    /\ l.op = "packet"
    /\ l.in[1] >= sizeofIGMPPacket
    /\ l.in[2] = ipIGMP_MEMBERSHIP_QUERY
    /\ l.in[4] = AnyAddr

CountDowns(list) == [i \in 1 .. Len(list) |-> list[i].ucCountDown]

(***************************************************************************)
(* C7: for a general query whose max-response-time field is M, every       *)
(* countdown drawn while processing it lies in 1 .. max(M,2)-1, whatever   *)
(* the random source returns and when it fails; a query with M < 2 gives   *)
(* the registry the countdowns a query with M = 2 gives it.                *)
(***************************************************************************)
C7_BoundedRandomness ==
    [][IsGeneralQuery(last') =>
           /\ \A i \in last'.out[1] :
                  xIGMP_ScheduleList'[i].ucCountDown
                      \in 1 .. (Max(last'.in[3], 2) - 1)
           /\ (last'.in[3] < 2) =>
                  CountDowns(xIGMP_ScheduleList') =
                      CountDowns(GeneralQuery(xIGMP_ScheduleList, 2,
                                              last'.in[5]).list)]_vars

\* a general query with M = 200 and the random source returning a low byte
\* of 255 has drawn a countdown
C7_Witness ==
    /\ IsGeneralQuery(last)
    /\ last.in[3] = 200
    /\ \E i \in last.out[1] :
           /\ last.in[5][1] # FAIL
           /\ last.in[5][1][2] = 255
           /\ xIGMP_ScheduleList[i].ucCountDown \in 1 .. 199

(***************************************************************************)
(* C8 as stated: while a general query with max-response-time field M is   *)
(* processed, an entry's countdown is redrawn if and only if it is 0 or    *)
(* greater than M; an entry whose countdown is non-zero and at most M      *)
(* keeps it.                                                               *)
(***************************************************************************)
C8_Original ==
    [][IsGeneralQuery(last') =>
           \A i \in 1 .. Len(xIGMP_ScheduleList) :
               /\ (i \in last'.out[1]) <=>
                      \/ xIGMP_ScheduleList[i].ucCountDown = 0
                      \/ xIGMP_ScheduleList[i].ucCountDown > last'.in[3]
               /\ (/\ xIGMP_ScheduleList[i].ucCountDown # 0
                   /\ xIGMP_ScheduleList[i].ucCountDown <= last'.in[3]) =>
                      xIGMP_ScheduleList'[i] = xIGMP_ScheduleList[i]]_vars

(***************************************************************************)
(* C8 as amended: an entry's countdown is redrawn if and only if it is 0   *)
(* or greater than or equal to M; an entry whose countdown is non-zero and *)
(* less than M keeps it.                                                   *)
(***************************************************************************)
C8_RescheduleCondition ==
    [][IsGeneralQuery(last') =>
           \A i \in 1 .. Len(xIGMP_ScheduleList) :
               /\ (i \in last'.out[1]) <=>
                      \/ xIGMP_ScheduleList[i].ucCountDown = 0
                      \/ xIGMP_ScheduleList[i].ucCountDown >= last'.in[3]
               /\ (/\ xIGMP_ScheduleList[i].ucCountDown # 0
                   /\ xIGMP_ScheduleList[i].ucCountDown < last'.in[3]) =>
                      xIGMP_ScheduleList'[i] = xIGMP_ScheduleList[i]]_vars

\* a general query with M = 9 has redrawn one entry, whose countdown is now
\* below 9, and kept the countdown 2 of the other
C8_Witness ==
    /\ IsGeneralQuery(last)
    /\ last.in[3] = 9
    /\ Len(xIGMP_ScheduleList) = 2
    /\ last.out[1] = {1}
    /\ xIGMP_ScheduleList[1].ucCountDown \in 1 .. 8
    /\ xIGMP_ScheduleList[2].ucCountDown = 2

(***************************************************************************)
(* C9: a general query with max-response-time field M leaves unchanged the *)
(* countdown of every entry with 0 < countdown < M.                        *)
(***************************************************************************)
C9_NoRegression ==
    [][IsGeneralQuery(last') =>
           \A i \in 1 .. Len(xIGMP_ScheduleList) :
               (/\ 0 < xIGMP_ScheduleList[i].ucCountDown
                /\ xIGMP_ScheduleList[i].ucCountDown < last'.in[3]) =>
                   xIGMP_ScheduleList'[i].ucCountDown =
                       xIGMP_ScheduleList[i].ucCountDown]_vars

\* a general query with M = 10 has left two countdowns of 9 and 2 as they
\* were
C9_Witness ==
    /\ IsGeneralQuery(last)
    /\ last.in[3] = 10
    /\ last.out[1] = {}
    /\ CountDowns(xIGMP_ScheduleList) = <<9, 2>>

\* the number of frames of a tick that report group g
FramesFor(sent, g) ==
    Cardinality({k \in 1 .. Len(sent) : sent[k].uiGroupAddress = g})

(***************************************************************************)
(* C10: one call of vHandleIGMP_Event decrements by 1 every countdown that *)
(* is greater than 0 and leaves the entries with countdown 0 as they are;  *)
(* it emits one frame for an entry whose countdown was 1 when a buffer is  *)
(* available, and no frame for any other entry, so that an entry whose     *)
(* countdown is 0 emits nothing.                                           *)
(***************************************************************************)
C10_TickFiring ==
    [][(last'.op = "tick") =>
           /\ Len(xIGMP_ScheduleList') = Len(xIGMP_ScheduleList)
           /\ \A i \in 1 .. Len(xIGMP_ScheduleList) :
                  /\ xIGMP_ScheduleList'[i] =
                         [xIGMP_ScheduleList[i] EXCEPT
                              !.ucCountDown = IF @ > 0 THEN @ - 1 ELSE 0]
                  /\ FramesFor(last'.sent, xIGMP_ScheduleList[i].addr) =
                         IF /\ xIGMP_ScheduleList[i].ucCountDown = 1
                            /\ Count(last'.nobuf, xIGMP_ScheduleList[i].addr) = 0
                         THEN 1 ELSE 0
           /\ \A k \in 1 .. Len(last'.sent) :
                  /\ Registered(last'.sent[k].uiGroupAddress)
                  /\ last'.sent[k].ucTypeOfMessage = ipIGMP_MEMBERSHIP_REPORT_V2
           /\ Len(last'.sent) + Len(last'.nobuf) =
                  Cardinality({i \in 1 .. Len(xIGMP_ScheduleList) :
                                   xIGMP_ScheduleList[i].ucCountDown = 1})]_vars

\* a tick has emitted the one frame of an entry whose countdown reached 0,
\* while the other entry, whose countdown was 0, emitted nothing
C10_Witness ==
    /\ last.op = "tick"
    /\ Len(xIGMP_ScheduleList) = 2
    /\ CountDowns(xIGMP_ScheduleList) = <<0, 0>>
    /\ Len(last.sent) = 1
    /\ last.sent[1].uiGroupAddress = xIGMP_ScheduleList[2].addr
    /\ last.nobuf = <<>>

(***************************************************************************)
(* C11: a join request for a group the socket's list already contains      *)
(* leaves the socket lists, the registry (entries, socket counts and       *)
(* countdowns) and the link filter as they are; the candidate descriptor   *)
(* of the request, if there is one, is freed and is not in the registry.   *)
(***************************************************************************)
C11_JoinTwiceNoOp ==
    [][(/\ last'.op = "join"
        /\ Find(xMulticastGroupsList[last'.in[1]], last'.in[2]) # 0) =>
           /\ xMulticastGroupsList' = xMulticastGroupsList
           /\ xIGMP_ScheduleList' = xIGMP_ScheduleList
           /\ last'.out[3] = <<>>
           /\ last'.out[1] = NotCalled
           /\ IF last'.in[3] = NULL
              THEN last'.out[2] = <<>> /\ xHeap' = xHeap
              ELSE /\ last'.out[2] = <<last'.in[3]>>
                   /\ last'.in[3] \notin RegistryPtrs'
                   /\ last'.in[3] \notin xHeap'
                   /\ ~bHeapFault']_vars

\* a socket's second join of a registered group, whose candidate was freed
C11_Witness ==
    /\ last.op = "join"
    /\ last.out[1] = NotCalled
    /\ last.in[3] # NULL
    /\ last.out[2] = <<last.in[3]>>
    /\ Registered(last.in[2])
    /\ EntryOf(last.in[2]).xNumSockets = 2

(***************************************************************************)
(* C12: a leave request for a group the socket's list does not contain     *)
(* changes nothing in the registry, the socket lists or the link filter,   *)
(* also when other sockets have the group registered; and                  *)
(* vRemoveIGMPReportFromList for a group without a registry entry leaves   *)
(* the registry as it is and frees nothing, once or repeated.              *)
(***************************************************************************)
C12_LeaveWithoutMembership ==
    /\ [](\A g \in Groups :
             ~Registered(g) =>
               /\ vRemoveIGMPReportFromList(xIGMP_ScheduleList, g) =
                      [list |-> xIGMP_ScheduleList, freed |-> <<>>]
               /\ vRemoveIGMPReportFromList(
                      vRemoveIGMPReportFromList(xIGMP_ScheduleList, g).list, g) =
                      [list |-> xIGMP_ScheduleList, freed |-> <<>>])
    /\ [][(last'.op = "leave") =>
             /\ (Find(xMulticastGroupsList[last'.in[1]], last'.in[2]) = 0) =>
                    /\ xMulticastGroupsList' = xMulticastGroupsList
                    /\ xIGMP_ScheduleList' = xIGMP_ScheduleList
                    /\ xHeap' = xHeap
                    /\ last'.out[2] = <<>>
                    /\ last'.out[3] = <<>>
             /\ (~Registered(last'.in[2])) =>
                    /\ xIGMP_ScheduleList' = xIGMP_ScheduleList
                    /\ last'.out[2] = <<>>]_vars

\* a leave of a socket that had not joined the group, which the other socket
\* has registered, while the other group is in a socket's list without a
\* registry entry
C12_Witness ==
    /\ last.op = "leave"
    /\ last.out[3] = <<>>
    /\ Registered(last.in[2])
    /\ SocketsWith(last.in[2]) # {}
    /\ \E g \in Groups : ~Registered(g) /\ SocketsWith(g) # {}
(***************************************************************************)
(* C13: eProcessIGMPPacket returns eReleaseBuffer for every frame, and a   *)
(* frame shorter than the Ethernet, IP and IGMP headers leaves the         *)
(* registry, every countdown and the two counters as they are.             *)
(***************************************************************************)
C13_ReleasedAndShortInert ==
    /\ []((last.op = "packet") => (last.out[2] = "eReleaseBuffer"))
    /\ [][(last'.op = "packet" /\ last'.in[1] < sizeofIGMPPacket) =>
             /\ xIGMP_ScheduleList' = xIGMP_ScheduleList
             /\ uiNumIGMP_Queries' = uiNumIGMP_Queries
             /\ uiNumIGMP_Reports' = uiNumIGMP_Reports
             /\ last'.out[1] = {}]_vars

\* a general query one byte short, released while two reports wait for a
\* query
C13_Witness ==
    /\ last.op = "packet"
    /\ last.in[1] = sizeofIGMPPacket - 1
    /\ last.in[2] = ipIGMP_MEMBERSHIP_QUERY
    /\ last.in[3] = 100
    /\ last.out[2] = "eReleaseBuffer"
    /\ uiNumIGMP_Queries = 0
    /\ CountDowns(xIGMP_ScheduleList) = <<0, 0, 253>>

(***************************************************************************)
(* C14: a membership query whose group address field is not zero leaves    *)
(* every registry entry as it is, the entry of the queried group included. *)
(***************************************************************************)
C14_GroupSpecificInert ==
    [][(/\ last'.op = "packet"
        /\ last'.in[1] >= sizeofIGMPPacket
        /\ last'.in[2] = ipIGMP_MEMBERSHIP_QUERY
        /\ last'.in[4] # AnyAddr) =>
           /\ xIGMP_ScheduleList' = xIGMP_ScheduleList
           /\ last'.out[1] = {}]_vars

\* a query for a registered group whose report is not scheduled
C14_Witness ==
    /\ last.op = "packet"
    /\ last.in[1] = sizeofIGMPPacket
    /\ last.in[2] = ipIGMP_MEMBERSHIP_QUERY
    /\ last.in[3] = 5
    /\ last.in[4] = OtherGroup
    /\ uiNumIGMP_Queries = 1
    /\ CountDowns(xIGMP_ScheduleList) = <<9, 0>>

(***************************************************************************)
(* C15: when a tick brings an entry's countdown to 0 and no network buffer *)
(* is available, no frame is sent for it, the entry stays in the registry  *)
(* with its socket count and countdown 0, the other entries of the sweep   *)
(* are processed as usual, and an entry whose countdown is 0 is neither    *)
(* sent nor changed by a tick.                                             *)
(***************************************************************************)
C15_BufferExhaustion ==
    [][(last'.op = "tick") =>
           \A i \in 1 .. Len(xIGMP_ScheduleList) :
               /\ (Count(last'.nobuf, xIGMP_ScheduleList[i].addr) > 0) =>
                      /\ xIGMP_ScheduleList[i].ucCountDown = 1
                      /\ Len(xIGMP_ScheduleList') = Len(xIGMP_ScheduleList)
                      /\ xIGMP_ScheduleList'[i] =
                             [xIGMP_ScheduleList[i] EXCEPT !.ucCountDown = 0]
                      /\ FramesFor(last'.sent, xIGMP_ScheduleList[i].addr) = 0
                      /\ \A j \in 1 .. Len(xIGMP_ScheduleList) :
                             /\ xIGMP_ScheduleList'[j].ucCountDown =
                                    Max(xIGMP_ScheduleList[j].ucCountDown - 1, 0)
                             /\ (/\ xIGMP_ScheduleList[j].ucCountDown = 1
                                 /\ Count(last'.nobuf,
                                          xIGMP_ScheduleList[j].addr) = 0) =>
                                    FramesFor(last'.sent,
                                              xIGMP_ScheduleList[j].addr) = 1
               /\ (xIGMP_ScheduleList[i].ucCountDown = 0) =>
                      /\ xIGMP_ScheduleList'[i] = xIGMP_ScheduleList[i]
                      /\ FramesFor(last'.sent, xIGMP_ScheduleList[i].addr) = 0
                      /\ Count(last'.nobuf, xIGMP_ScheduleList[i].addr) = 0]_vars

\* the first report of the sweep found no buffer, the second one was sent
C15_Witness ==
    /\ last.op = "tick"
    /\ Len(xIGMP_ScheduleList) = 2
    /\ last.nobuf = <<xIGMP_ScheduleList[1].addr>>
    /\ Len(last.sent) = 1
    /\ last.sent[1].uiGroupAddress = xIGMP_ScheduleList[2].addr
    /\ CountDowns(xIGMP_ScheduleList) = <<0, 0>>
    /\ xIGMP_ScheduleList[1].xNumSockets = 1

(***************************************************************************)
(* C16: when the random source fails for every draw of a general query     *)
(* with window w = max(M,2)-1, the rescheduled entries receive, in the     *)
(* order of the registry, the countdowns 1, 2, ..., w, 1, 2, ...; every    *)
(* entry whose countdown was 0 is among them.                              *)
(***************************************************************************)
C16_DeterministicFallback ==
    [][(/\ IsGeneralQuery(last')
        /\ \A k \in DOMAIN last'.in[5] : last'.in[5][k] = FAIL) =>
           \A i \in 1 .. Len(xIGMP_ScheduleList) :
               /\ (xIGMP_ScheduleList[i].ucCountDown = 0) => (i \in last'.out[1])
               /\ (i \in last'.out[1]) =>
                      /\ xIGMP_ScheduleList'[i].ucCountDown =
                             (Cardinality({j \in last'.out[1] : j < i})
                                  % (Max(last'.in[3], 2) - 1)) + 1
                      /\ xIGMP_ScheduleList'[i].ucCountDown # 0]_vars

\* three entries rescheduled without entropy in a window of 2
C16_Witness ==
    /\ IsGeneralQuery(last)
    /\ last.in[3] = 3
    /\ last.in[5] = <<FAIL, FAIL, FAIL>>
    /\ last.out[1] = {1, 2, 3}
    /\ CountDowns(xIGMP_ScheduleList) = <<1, 2, 1>>

(***************************************************************************)
(* C17 as stated: on a successful draw r of a general query with window    *)
(* w = max(M,2)-1, the countdown is r masked with the smallest 2^k - 1     *)
(* that is at least w, with 0 replaced by 1 and w subtracted until the     *)
(* value is at most w.                                                     *)
(***************************************************************************)
C17_RandomMask ==
    [][IsGeneralQuery(last') =>
           LET w == Max(last'.in[3], 2) - 1
               masks == {1, 3, 7, 15, 31, 63, 127, 255}
               mask == CHOOSE m \in masks :
                           m >= w /\ \A m2 \in masks : (m2 >= w) => (m <= m2)
           IN  \A i \in last'.out[1] :
                   LET r == last'.in[5][Cardinality({j \in last'.out[1] : j < i})
                                           + 1]
                       v == IF BitAnd(r[2], mask) = 0 THEN 1
                            ELSE BitAnd(r[2], mask)
                   IN  (r # FAIL) =>
                           xIGMP_ScheduleList'[i].ucCountDown =
                               ((v - 1) % w) + 1]_vars

(***************************************************************************)
(* C18 as stated: after a join request has been processed, no membership   *)
(* record holds a reference to a report descriptor (pxIGMPReportDesc is    *)
(* NULL), whether the registry consumed the descriptor or not.             *)
(***************************************************************************)
C18_PendingCleared ==
    \A s \in Sockets :
        \A i \in 1 .. Len(xMulticastGroupsList[s]) :
            xMulticastGroupsList[s][i].pxIGMPReportDesc = NULL

(***************************************************************************)
(* C19: every frame a tick emits for an entry of group G is an IGMPv2      *)
(* membership report with max-response-time 0, group address G, IPv4       *)
(* destination G, Ethernet destination the multicast MAC mapped from G,    *)
(* IP protocol IGMP and TTL 1.                                             *)
(***************************************************************************)
C19_ReportFrame ==
    (last.op = "tick") =>
        \A k \in 1 .. Len(last.sent) :
            /\ Registered(last.sent[k].uiGroupAddress)
            /\ EntryOf(last.sent[k].uiGroupAddress).ucCountDown = 0
            /\ last.sent[k] =
                   [xDestinationAddress |->
                        vSetMultiCastIPv4MacAddress(last.sent[k].uiGroupAddress),
                    ucTypeOfMessage |-> 22,
                    ucMaxResponseTime |-> 0,
                    uiGroupAddress |-> last.sent[k].uiGroupAddress,
                    ulDestinationIPAddress |-> last.sent[k].uiGroupAddress,
                    ucProtocol |-> ipPROTOCOL_IGMP,
                    ucTimeToLive |-> 1]

\* one tick has emitted the reports of both groups
C19_Witness ==
    /\ last.op = "tick"
    /\ Len(last.sent) = 2
    /\ last.sent[1].uiGroupAddress # last.sent[2].uiGroupAddress

(***************************************************************************)
(* C20: a general query, whatever its max-response-time and the outcome of *)
(* the random source, leaves every entry whose countdown c was not 0 with  *)
(* a countdown that is not 0 and at most c.                                *)
(***************************************************************************)
C20_NeverDelays ==
    [][IsGeneralQuery(last') =>
           \A i \in 1 .. Len(xIGMP_ScheduleList) :
               (xIGMP_ScheduleList[i].ucCountDown # 0) =>
                   /\ xIGMP_ScheduleList'[i].ucCountDown # 0
                   /\ xIGMP_ScheduleList'[i].ucCountDown <=
                          xIGMP_ScheduleList[i].ucCountDown]_vars

\* a general query with M = 200 and the random source returning a low byte
\* of 255 has redrawn the second entry below its countdown and kept the first
C20_Witness ==
    /\ IsGeneralQuery(last)
    /\ last.in[3] = 200
    /\ Len(xIGMP_ScheduleList) = 2
    /\ last.out[1] = {2}
    /\ last.in[5][1] = <<0, 255>>
    /\ xIGMP_ScheduleList[1].ucCountDown = 9
    /\ xIGMP_ScheduleList[2].ucCountDown \in 1 .. 199
(***************************************************************************)
(* C24 as stated: whatever the joins and leaves, with or without a         *)
(* candidate report descriptor, a leave never removes the registry entry   *)
(* of a group that another socket's list still contains.                   *)
(***************************************************************************)
C24_LeaveKeepsGroupInUse ==
    [][(/\ last'.op = "leave"
        /\ Registered(last'.in[2])
        /\ Find(xIGMP_ScheduleList', last'.in[2]) = 0) =>
           \A s \in Sockets :
               Find(xMulticastGroupsList'[s], last'.in[2]) = 0]_vars

(***************************************************************************)
(* C25: every entry of the registry has a socket count of at least 1.      *)
(***************************************************************************)
C25_CountAtLeastOne ==
    \A i \in 1 .. Len(xIGMP_ScheduleList) :
        xIGMP_ScheduleList[i].xNumSockets >= 1

\* a leave has brought a socket count from 2 to 1 and another leave has
\* removed the entry of the other group
C25_Witness ==
    /\ last.op = "leave"
    /\ last.out[3] # <<>>
    /\ last.out[2] = <<>>
    /\ Len(xIGMP_ScheduleList) = 1
    /\ xIGMP_ScheduleList[1].addr = last.in[2]
    /\ xIGMP_ScheduleList[1].xNumSockets = 1
    /\ \E g \in Groups : g # last.in[2] /\ SocketsWith(g) = {}

(***************************************************************************)
(* C26: no socket's list holds two records with the same group address; a  *)
(* leave of a group the socket had joined removes exactly the matching     *)
(* record and leaves the socket's other records and the other sockets'     *)
(* lists as they are.                                                      *)
(***************************************************************************)
C26_PerSocketUniqueness ==
    /\ [](\A s \in Sockets :
             \A i, j \in 1 .. Len(xMulticastGroupsList[s]) :
                 (i # j) => (xMulticastGroupsList[s][i].addr #
                                 xMulticastGroupsList[s][j].addr))
    /\ [][(/\ last'.op = "leave"
           /\ Find(xMulticastGroupsList[last'.in[1]], last'.in[2]) # 0) =>
             xMulticastGroupsList' =
                 [xMulticastGroupsList EXCEPT
                      ![last'.in[1]] =
                          RemoveAt(@, Find(@, last'.in[2]))]]_vars

\* a socket that had joined both groups has left the first one it joined
C26_Witness ==
    /\ last.op = "leave"
    /\ last.out[3] # <<>>
    /\ Len(xMulticastGroupsList[last.in[1]]) = 1
    /\ xMulticastGroupsList[last.in[1]][1].addr # last.in[2]
    /\ \E s \in Sockets : s # last.in[1] /\ Len(xMulticastGroupsList[s]) = 2

(***************************************************************************)
(* C27: when a socket joins a group that has a registry entry,             *)
(* xAddIGMPReportToList returns pdFALSE, increments the entry's socket     *)
(* count by 1 and leaves its countdown, its position and the other entries *)
(* as they are.                                                            *)
(***************************************************************************)
C27_DuplicateInsertBumps ==
    [][(/\ last'.op = "join"
        /\ last'.in[3] # NULL
        /\ Registered(last'.in[2])
        /\ Find(xMulticastGroupsList[last'.in[1]], last'.in[2]) = 0) =>
           /\ last'.out[1] = pdFALSE
           /\ xIGMP_ScheduleList' =
                  [xIGMP_ScheduleList EXCEPT
                       ![Find(xIGMP_ScheduleList, last'.in[2])].xNumSockets =
                           @ + 1]]_vars

\* the second socket has joined the group of the first entry of a registry
\* of two entries
C27_Witness ==
    /\ last.op = "join"
    /\ last.out[1] = pdFALSE
    /\ ~PreRegistered(last.in[2])
    /\ Len(xIGMP_ScheduleList) = 2
    /\ xIGMP_ScheduleList[1].addr = last.in[2]
    /\ xIGMP_ScheduleList[1].xNumSockets = 2
    /\ Cardinality(SocketsWith(last.in[2])) = 2

(***************************************************************************)
(* C28: an inbound packet and a tick never add, remove or reorder registry *)
(* entries and never change a socket count, a socket's list or the heap of *)
(* descriptors; a packet that is not a query (a report, a message of       *)
(* another type, a short frame) leaves every countdown unchanged as well.  *)
(***************************************************************************)
C28_OnlyCountdowns ==
    [][(last'.op \in {"packet", "tick"}) =>
           /\ Len(xIGMP_ScheduleList') = Len(xIGMP_ScheduleList)
           /\ \A i \in 1 .. Len(xIGMP_ScheduleList) :
                  xIGMP_ScheduleList'[i] =
                      [xIGMP_ScheduleList[i] EXCEPT
                           !.ucCountDown = xIGMP_ScheduleList'[i].ucCountDown]
           /\ xMulticastGroupsList' = xMulticastGroupsList
           /\ xHeap' = xHeap
           /\ bHeapFault' = bHeapFault
           /\ (last'.op = "packet" /\ uiNumIGMP_Queries' = uiNumIGMP_Queries) =>
                  xIGMP_ScheduleList' = xIGMP_ScheduleList]_vars

\* a membership report was received while one report is scheduled and the
\* other one is not
C28_Witness ==
    /\ last.op = "packet"
    /\ uiNumIGMP_Reports = 1
    /\ uiNumIGMP_Queries = 1
    /\ Len(xIGMP_ScheduleList) = 2
    /\ xIGMP_ScheduleList[1].ucCountDown = 0
    /\ xIGMP_ScheduleList[2].ucCountDown > 1

(***************************************************************************)
(* C21: after a general query with max-response-time M every registered    *)
(* group has a countdown in 1 .. max(M,2)-1, and while the group stays     *)
(* registered and no send fails for lack of a buffer, its report goes out  *)
(* within max(M,2)-1 ticks of the query: the ticks left of that window     *)
(* (last.watch[g].due) never run out, and the countdown never exceeds      *)
(* them.                                                                   *)
(***************************************************************************)
C21_QueryResponseBound ==
    \A g \in Groups :
        (last.watch[g].due # -1) =>
            /\ Registered(g)
            /\ last.watch[g].due >= 1
            /\ EntryOf(g).ucCountDown >= 1
            /\ EntryOf(g).ucCountDown <= last.watch[g].due

\* ticks have passed since a general query and a group is down to the last
\* tick of the window, its report due on the next tick
C21_Witness ==
    /\ last.op = "tick"
    /\ \E g \in Groups :
           /\ last.watch[g].due = 1
           /\ Registered(g)
           /\ EntryOf(g).ucCountDown = 1

C29_Determinism ==
    \A g \in Groups : \A p1, p2 \in SysScope.ptrs \ xHeap :
        (~Registered(g)) =>
            CountDowns(xAddIGMPReportToList(xIGMP_ScheduleList, p1, g, FAIL).list)
                = CountDowns(xAddIGMPReportToList(xIGMP_ScheduleList, p2, g, FAIL).list)
====
